---- MODULE Spec2Model ----
(***************************************************************************)
(* Model of distutils/cygwinccompiler.py: the MSVC runtime lookup          *)
(* (get_msvcr), the pyconfig.h check (check_config_h), the compiler        *)
(* identity check (is_cygwincc) and the two compiler classes               *)
(* CygwinCCompiler and Mingw32CCompiler.                                   *)
(*                                                                         *)
(* Python strings are sequences of one-character strings, so that regular  *)
(* expression search, substring tests, strip() and endswith() are computed *)
(* rather than assumed.                                                    *)
(***************************************************************************)
EXTENDS Integers, Sequences, FiniteSets, TLC

VARIABLES
    sys_version,     \* sys.version, a string
    msvcr,           \* outcome of the last get_msvcr() call
    config_h,        \* the file named by sysconfig.get_config_h_filename()
    check,           \* outcome of the last check_config_h() call
    cc_env,          \* what running the configured compiler would do
    self,            \* the compiler instance (class, attributes, executables)
    warnings,        \* texts passed to self.warn, in order
    call             \* outcome of the last method / is_cygwincc call

vars == <<sys_version, msvcr, config_h, check, cc_env, self, warnings, call>>

(***************************************************************************)
(* Bounds of the model.                                                    *)
(***************************************************************************)
MaxDigits == 5       \* longest digit run following a version marker
MaxDirs == 2         \* longest runtime_library_dirs list
MaxWarnings == 4     \* warnings kept in the log before calls stop

(***************************************************************************)
(* String helpers (str / bytes operations used by the module).             *)
(***************************************************************************)
Digits == <<"0", "1", "2", "3", "4", "5", "6", "7", "8", "9">>

IsDigit(c) == \E i \in 1..Len(Digits) : Digits[i] = c

DigitValue(c) == (CHOOSE i \in 1..Len(Digits) : Digits[i] = c) - 1

\* s[i .. i+Len(p)-1] = p
MatchesAt(s, p, i) ==
    /\ i >= 1
    /\ i + Len(p) - 1 <= Len(s)
    /\ \A k \in 1..Len(p) : s[i + k - 1] = p[k]

\* Python's  p in s
Contains(s, p) == \E i \in 1..(Len(s) + 1) : MatchesAt(s, p, i)

\* Python's  s.endswith(p)
EndsWith(s, p) == MatchesAt(s, p, Len(s) - Len(p) + 1)

\* Python's  int(s)  for a string of decimal digits
RECURSIVE ParseInt(_)
ParseInt(s) ==
    IF Len(s) = 0 THEN 0
    ELSE 10 * ParseInt(SubSeq(s, 1, Len(s) - 1)) + DigitValue(s[Len(s)])

Max(S) == CHOOSE x \in S : \A y \in S : y <= x
Min(S) == CHOOSE x \in S : \A y \in S : x <= y

(***************************************************************************)
(* get_msvcr and its lookup table.                                         *)
(***************************************************************************)
\* the literal text of the pattern  MSC v\.
Marker == <<"M", "S", "C", " ", "v", ".">>

\* the repetition count of  (\d{4})
VersionDigits == 4

\* re.search(r'MSC v\.(\d{4})', s): the leftmost position where the marker
\* is followed by four digits; group 1 holds those digits.
\* variant: the dot of the pattern left unescaped, matching any character
MatchStarts_unescaped_dot(s) ==
    {i \in 1..Len(s) :
        /\ MatchesAt(s, SubSeq(Marker, 1, Len(Marker) - 1), i)
        /\ i + Len(Marker) + VersionDigits - 1 <= Len(s)
        /\ \A k \in 0..(VersionDigits - 1) : IsDigit(s[i + Len(Marker) + k])}

MatchStarts(s) ==
    {i \in 1..Len(s) :
        /\ MatchesAt(s, Marker, i)
        /\ i + Len(Marker) + VersionDigits - 1 <= Len(s)
        /\ \A k \in 0..(VersionDigits - 1) : IsDigit(s[i + Len(Marker) + k])}

re_search(s) ==
    IF MatchStarts(s) = {}
    THEN [found |-> FALSE, group1 |-> <<>>]
    ELSE LET i == Min(MatchStarts(s))
         IN  [found |-> TRUE,
              group1 |-> SubSeq(s, i + Len(Marker),
                                i + Len(Marker) + VersionDigits - 1)]

\* RangeMap.undefined_value, a sentinel that is no library list
undefined_value == <<"RangeMap.undefined_value">>

\* variant: the MSVC 7.1 boundary one too high
msvcr_lookup_late_msvcr71 ==
    (1300 :> <<"msvcr70">>) @@ (1311 :> <<"msvcr71">>) @@
    (1400 :> <<"msvcr80">>) @@ (1500 :> <<"msvcr90">>) @@
    (1600 :> <<"msvcr100">>) @@ (1700 :> <<"msvcr110">>) @@
    (1800 :> <<"msvcr120">>) @@ (1900 :> <<"vcruntime140">>) @@
    (2000 :> undefined_value)

\* variant: the closing 2000 boundary left out
msvcr_lookup_open_top ==
    (1300 :> <<"msvcr70">>) @@ (1310 :> <<"msvcr71">>) @@
    (1400 :> <<"msvcr80">>) @@ (1500 :> <<"msvcr90">>) @@
    (1600 :> <<"msvcr100">>) @@ (1700 :> <<"msvcr110">>) @@
    (1800 :> <<"msvcr120">>) @@ (1900 :> <<"vcruntime140">>)

\* _msvcr_lookup: the source dictionary handed to RangeMap.left
msvcr_lookup ==
    (1300 :> <<"msvcr70">>) @@ (1310 :> <<"msvcr71">>) @@
    (1400 :> <<"msvcr80">>) @@ (1500 :> <<"msvcr90">>) @@
    (1600 :> <<"msvcr100">>) @@ (1700 :> <<"msvcr110">>) @@
    (1800 :> <<"msvcr120">>) @@ (1900 :> <<"vcruntime140">>) @@
    (2000 :> undefined_value)

\* RangeMap.left(source)[item]: the value of the greatest key <= item;
\* KeyError when there is no such key or its value is undefined_value.
RangeMap_left_getitem(source, item) ==
    LET matches == {k \in DOMAIN source : item >= k}
    IN  IF matches = {}
        THEN [KeyError |-> TRUE, value |-> <<>>]
        ELSE IF source[Max(matches)] = undefined_value
             THEN [KeyError |-> TRUE, value |-> <<>>]
             ELSE [KeyError |-> FALSE, value |-> source[Max(matches)]]

\* outcome of a get_msvcr call:
\*   kind "None"        return (None): match is None, int(...) not reached
\*   kind "List"        return _msvcr_lookup[msc_ver]
\*   kind "ValueError"  raise ValueError("Unknown MS Compiler version %s " % msc_ver)
\* lookups counts the subscriptions of _msvcr_lookup made by the call.
NoMsvcr == [kind |-> "NotCalled", libs |-> <<>>, msc_ver |-> -1, lookups |-> 0]

get_msvcr(version) ==
    LET match == re_search(version)
    IN  IF ~match.found
        THEN [kind |-> "None", libs |-> <<>>, msc_ver |-> -1, lookups |-> 0]
        ELSE LET msc_ver == ParseInt(match.group1)
                 got == RangeMap_left_getitem(msvcr_lookup, msc_ver)
             IN  IF got.KeyError
                 THEN [kind |-> "ValueError", libs |-> <<>>,
                       msc_ver |-> msc_ver, lookups |-> 1]
                 ELSE [kind |-> "List", libs |-> got.value,
                       msc_ver |-> msc_ver, lookups |-> 1]

(***************************************************************************)
(* Values of sys.version.                                                  *)
(***************************************************************************)
DigitChoice(i) ==
    CASE i = 1 -> {"0", "1", "2", "9"}
      [] i = 2 -> {Digits[k] : k \in 1..Len(Digits)}
      [] i = 3 -> {"0", "1", "9"}
      [] i = 4 -> {"0", "9"}
      [] OTHER -> {"7"}

RECURSIVE DigitRunsOfLen(_)
DigitRunsOfLen(n) ==
    IF n = 0 THEN {<<>>}
    ELSE {Append(r, d) : r \in DigitRunsOfLen(n - 1), d \in DigitChoice(n)}

DigitRuns == UNION {DigitRunsOfLen(n) : n \in 0..MaxDigits}

VersionPrefixes ==
    { <<>>,
      <<"3", ".", "8", " ", "[">>,
      <<"[", "G", "C", "C", " ">>,
      <<"C", "l", "a", "n", "g", " ">>,
      <<"g", "c", "c", " ">>,
      <<"M", "S", "C", " ", "v", ".", "1", "9", " ">> }

MarkerTexts ==
    { <<>>,
      Marker,
      <<"M", "S", "C", " ", "v">>,
      <<"M", "S", "C", " ", "v", "-">>,
      <<"m", "s", "c", " ", "v", ".">> }

VersionSuffixes == { <<>>, <<" ", "6", "4", "]">> }

VersionStrings ==
    {p \o m \o d \o x : p \in VersionPrefixes, m \in MarkerTexts,
                        d \in DigitRuns, x \in VersionSuffixes}

(***************************************************************************)
(* check_config_h.                                                         *)
(***************************************************************************)
CONFIG_H_OK == "ok"
CONFIG_H_NOTOK == "not ok"
CONFIG_H_UNCERTAIN == "uncertain"

GCC == <<"G", "C", "C">>
Clang == <<"C", "l", "a", "n", "g">>
GNUC == <<"_", "_", "G", "N", "U", "C", "_", "_">>

\* open(fn): the OSError it raises, "" when it succeeds
open_strerror(file) ==
    IF ~file.exists THEN "No such file or directory"
    ELSE IF ~file.readable THEN "Permission denied"
    ELSE ""

\* exc.strerror of an OSError raised by config_h.read()
read_strerror == "Input/output error"

\* outcome of a check_config_h call:
\*   kind      "return" or "raise" (an exception that is no OSError leaves
\*             the function), "NotCalled" before the first call
\*   status    the first element of the returned tuple
\*   details   the second element, as the pieces that are formatted together
\*   ops       the operations performed on the file, in order
\*   is_open   whether the file object is still open when the call ends
NoCheck ==
    [kind |-> "NotCalled", status |-> "", details |-> <<>>, ops |-> <<>>,
     is_open |-> FALSE]

Returned(status, details, ops, is_open) ==
    [kind |-> "return", status |-> status, details |-> details, ops |-> ops,
     is_open |-> is_open]

\* variant: the file closed only on the paths that return from the inner
\* block normally, without try/finally
read_config_h_no_finally(file) ==
    IF open_strerror(file) # ""
    THEN Returned(CONFIG_H_UNCERTAIN,
                  <<"couldn't read '", file.fn, "': ", open_strerror(file)>>,
                  <<"open">>, FALSE)
    ELSE IF file.read_exc = "OSError"
    THEN Returned(CONFIG_H_UNCERTAIN,
                  <<"couldn't read '", file.fn, "': ", read_strerror>>,
                  <<"open", "read">>, TRUE)
    ELSE IF file.read_exc # ""
    THEN [kind |-> "raise", status |-> file.read_exc, details |-> <<>>,
          ops |-> <<"open", "read">>, is_open |-> TRUE]
    ELSE IF Contains(file.content, GNUC)
    THEN Returned(CONFIG_H_OK, <<"'", file.fn, "' mentions '__GNUC__'">>,
                  <<"open", "read", "close">>, FALSE)
    ELSE Returned(CONFIG_H_NOTOK,
                  <<"'", file.fn, "' does not mention '__GNUC__'">>,
                  <<"open", "read", "close">>, FALSE)

\* variant: the strerror left out of the explanation
read_config_h_no_strerror(file) ==
    IF open_strerror(file) # ""
    THEN Returned(CONFIG_H_UNCERTAIN, <<"couldn't read '", file.fn, "'">>,
                  <<"open">>, FALSE)
    ELSE IF file.read_exc = "OSError"
    THEN Returned(CONFIG_H_UNCERTAIN, <<"couldn't read '", file.fn, "'">>,
                  <<"open", "read", "close">>, FALSE)
    ELSE IF file.read_exc # ""
    THEN [kind |-> "raise", status |-> file.read_exc, details |-> <<>>,
          ops |-> <<"open", "read", "close">>, is_open |-> FALSE]
    ELSE IF Contains(file.content, GNUC)
    THEN Returned(CONFIG_H_OK, <<"'", file.fn, "' mentions '__GNUC__'">>,
                  <<"open", "read", "close">>, FALSE)
    ELSE Returned(CONFIG_H_NOTOK,
                  <<"'", file.fn, "' does not mention '__GNUC__'">>,
                  <<"open", "read", "close">>, FALSE)

\* variant: a file that does not mention __GNUC__ reported as uncertain
read_config_h_notok_as_uncertain(file) ==
    IF open_strerror(file) # ""
    THEN Returned(CONFIG_H_UNCERTAIN,
                  <<"couldn't read '", file.fn, "': ", open_strerror(file)>>,
                  <<"open">>, FALSE)
    ELSE IF file.read_exc = "OSError"
    THEN Returned(CONFIG_H_UNCERTAIN,
                  <<"couldn't read '", file.fn, "': ", read_strerror>>,
                  <<"open", "read", "close">>, FALSE)
    ELSE IF file.read_exc # ""
    THEN [kind |-> "raise", status |-> file.read_exc, details |-> <<>>,
          ops |-> <<"open", "read", "close">>, is_open |-> FALSE]
    ELSE IF Contains(file.content, GNUC)
    THEN Returned(CONFIG_H_OK, <<"'", file.fn, "' mentions '__GNUC__'">>,
                  <<"open", "read", "close">>, FALSE)
    ELSE Returned(CONFIG_H_UNCERTAIN,
                  <<"'", file.fn, "' does not mention '__GNUC__'">>,
                  <<"open", "read", "close">>, FALSE)

\* the try block of check_config_h: open(fn), read, close in the finally
\* clause, OSError from open or read caught by the outer except
read_config_h(file) ==
    IF open_strerror(file) # ""
    THEN \* open raised: nothing to close
         Returned(CONFIG_H_UNCERTAIN,
                  <<"couldn't read '", file.fn, "': ", open_strerror(file)>>,
                  <<"open">>, FALSE)
    ELSE IF file.read_exc = "OSError"
    THEN \* read raised OSError: finally closes, except returns
         Returned(CONFIG_H_UNCERTAIN,
                  <<"couldn't read '", file.fn, "': ", read_strerror>>,
                  <<"open", "read", "close">>, FALSE)
    ELSE IF file.read_exc # ""
    THEN \* read raised something else: finally closes, the exception leaves
         [kind |-> "raise", status |-> file.read_exc, details |-> <<>>,
          ops |-> <<"open", "read", "close">>, is_open |-> FALSE]
    ELSE IF Contains(file.content, GNUC)
    THEN Returned(CONFIG_H_OK, <<"'", file.fn, "' mentions '__GNUC__'">>,
                  <<"open", "read", "close">>, FALSE)
    ELSE Returned(CONFIG_H_NOTOK,
                  <<"'", file.fn, "' does not mention '__GNUC__'">>,
                  <<"open", "read", "close">>, FALSE)

check_config_h(version, file) ==
    IF Contains(version, GCC)
    THEN Returned(CONFIG_H_OK, <<"sys.version mentions 'GCC'">>, <<>>, FALSE)
    ELSE IF Contains(version, Clang)
    THEN Returned(CONFIG_H_OK, <<"sys.version mentions 'Clang'">>, <<>>, FALSE)
    ELSE read_config_h(file)

(***************************************************************************)
(* Values of the configuration header file.                                *)
(***************************************************************************)
FileNames == {"pyconfig.h", "/usr/include/python3.8/pyconfig.h"}

FileContents ==
    { <<>>,
      GNUC,
      <<"#", "i", "f", " ">> \o GNUC \o <<"\n">>,
      <<"_", "_", "G", "N", "U", "C", "_">>,
      <<"_", "G", "N", "U", "C", "_", "_", " ", "x">> }

ReadExceptions == {"", "OSError", "UnicodeDecodeError"}

ConfigFiles ==
    {[fn |-> f, exists |-> FALSE, readable |-> FALSE, read_exc |-> "",
      content |-> <<>>] : f \in FileNames}
    \cup
    {[fn |-> f, exists |-> TRUE, readable |-> FALSE, read_exc |-> "",
      content |-> <<>>] : f \in FileNames}
    \cup
    {[fn |-> f, exists |-> TRUE, readable |-> TRUE, read_exc |-> e,
      content |-> c] : f \in FileNames, e \in ReadExceptions, c \in FileContents}

NoFile == [fn |-> "pyconfig.h", exists |-> FALSE, readable |-> FALSE,
           read_exc |-> "", content |-> <<>>]

ConfigVersions ==
    {p \o m \o x :
        p \in VersionPrefixes \cup { <<"G", "C", " ", "C">>,
                                     <<"C", "l", "a", "n", "g", " ">> \o GCC },
        m \in { <<>>, Marker \o <<"1", "9", "0", "0">> },
        x \in VersionSuffixes}

(***************************************************************************)
(* is_cygwincc.                                                            *)
(***************************************************************************)
IsSpace(c) == c \in {" ", "\n", "\r", "\t"}

\* shlex.split(cc) for a command without quotes or escapes: the words
\* between runs of whitespace
RECURSIVE shlex_split_from(_, _, _)
shlex_split_from(s, i, word) ==
    IF i > Len(s)
    THEN IF word = <<>> THEN <<>> ELSE <<word>>
    ELSE IF IsSpace(s[i])
    THEN (IF word = <<>> THEN <<>> ELSE <<word>>) \o shlex_split_from(s, i + 1, <<>>)
    ELSE shlex_split_from(s, i + 1, Append(word, s[i]))

shlex_split(s) == shlex_split_from(s, 1, <<>>)

\* bytes.strip(): leading and trailing whitespace removed
RECURSIVE lstrip(_)
lstrip(s) ==
    IF s # <<>> /\ IsSpace(s[1]) THEN lstrip(Tail(s)) ELSE s

RECURSIVE rstrip(_)
rstrip(s) ==
    IF s # <<>> /\ IsSpace(s[Len(s)]) THEN rstrip(SubSeq(s, 1, Len(s) - 1)) ELSE s

strip(s) == rstrip(lstrip(s))

cygwin == <<"c", "y", "g", "w", "i", "n">>
dumpmachine == <<"-", "d", "u", "m", "p", "m", "a", "c", "h", "i", "n", "e">>

\* check_output(argv): the captured standard output, or CalledProcessError
\* when the command exits with a non-zero status
check_output(env, argv) ==
    IF env.exit # 0
    THEN [raised |-> "CalledProcessError", out |-> <<>>, argv |-> argv]
    ELSE [raised |-> "", out |-> env.out, argv |-> argv]

\* variant: the output tested as captured, without strip()
is_cygwincc_no_strip(env, cc) ==
    LET run == check_output(env, shlex_split(cc) \o <<dumpmachine>>)
    IN  [raised |-> run.raised, argv |-> run.argv,
         value |-> run.raised = "" /\ EndsWith(run.out, cygwin)]

\* outcome of is_cygwincc(cc): the argv run, the value returned or the
\* exception that leaves the function
is_cygwincc(env, cc) ==
    LET run == check_output(env, shlex_split(cc) \o <<dumpmachine>>)
    IN  [raised |-> run.raised, argv |-> run.argv,
         value |-> run.raised = "" /\ EndsWith(strip(run.out), cygwin)]

(***************************************************************************)
(* CygwinCCompiler and Mingw32CCompiler.                                   *)
(***************************************************************************)
\* _runtime_library_dirs_msg (the back quotes of the text left out)
runtime_library_dirs_msg ==
    "Unable to set runtime library search path on Windows, usually indicated by runtime_library_dirs parameter to Extension"

ExecKeys == {"compiler", "compiler_so", "compiler_cxx", "linker_exe", "linker_so"}

\* an executable that has not been configured
Unset == [fmt |-> "", args |-> <<>>]

shared_option == <<"-", "s", "h", "a", "r", "e", "d">>

NoSelf ==
    [class |-> "none", state |-> "unbuilt", cc |-> <<>>, cxx |-> <<>>,
     linker_dll |-> <<>>, executables |-> [k \in ExecKeys |-> Unset]]

\* super().__init__(verbose, dry_run, force): the instance as the base class
\* leaves it, carrying the attributes cc, cxx and linker_dll that
\* Mingw32CCompiler.__init__ reads, with no executable configured
base_init(class, env) ==
    [class |-> class, state |-> "ready", cc |-> env.cc, cxx |-> env.cxx,
     linker_dll |-> env.cc, executables |-> [k \in ExecKeys |-> Unset]]

\* self.set_executables(...): each executable named by a keyword is set
set_executables(obj, kwargs) ==
    [obj EXCEPT !.executables =
        [k \in ExecKeys |-> IF k \in DOMAIN kwargs THEN kwargs[k] ELSE @[k]]]

\* the keyword arguments of the set_executables call of Mingw32CCompiler
mingw32_executables(obj) ==
    [compiler     |-> [fmt |-> "%s -O -Wall", args |-> <<obj.cc>>],
     compiler_so  |-> [fmt |-> "%s -mdll -O -Wall", args |-> <<obj.cc>>],
     compiler_cxx |-> [fmt |-> "%s -O -Wall", args |-> <<obj.cxx>>],
     linker_exe   |-> [fmt |-> "%s", args |-> <<obj.cc>>],
     linker_so    |-> [fmt |-> "{} {}", args |-> <<obj.linker_dll, shared_option>>]]

\* variant: the executables configured before the compiler is identified
Mingw32CCompiler_init_configure_first(env) ==
    LET obj == set_executables(base_init("mingw32", env),
                               mingw32_executables(base_init("mingw32", env)))
        probe == is_cygwincc(env, obj.cc)
    IN  IF probe.raised # ""
        THEN [obj |-> [obj EXCEPT !.state = "failed"], raised |-> probe.raised,
              argv |-> probe.argv,
              events |-> <<"super().__init__", "set_executables", "is_cygwincc">>]
        ELSE IF probe.value
        THEN [obj |-> [obj EXCEPT !.state = "failed"], raised |-> "CCompilerError",
              argv |-> probe.argv,
              events |-> <<"super().__init__", "set_executables", "is_cygwincc">>]
        ELSE [obj |-> obj, raised |-> "", argv |-> probe.argv,
              events |-> <<"super().__init__", "set_executables", "is_cygwincc">>]

\* outcome of Mingw32CCompiler.__init__: the instance, the exception raised
\* ("" when the constructor returns) and the calls made, in order
Mingw32CCompiler_init(env) ==
    LET obj == base_init("mingw32", env)
        probe == is_cygwincc(env, obj.cc)
    IN  IF probe.raised # ""
        THEN [obj |-> [obj EXCEPT !.state = "failed"], raised |-> probe.raised,
              argv |-> probe.argv,
              events |-> <<"super().__init__", "is_cygwincc">>]
        ELSE IF probe.value
        THEN [obj |-> [obj EXCEPT !.state = "failed"], raised |-> "CCompilerError",
              argv |-> probe.argv,
              events |-> <<"super().__init__", "is_cygwincc">>]
        ELSE [obj |-> set_executables(obj, mingw32_executables(obj)),
              raised |-> "", argv |-> probe.argv,
              events |-> <<"super().__init__", "is_cygwincc", "set_executables">>]

\* outcome of a runtime_library_dir_option(dir) call: the exception raised
\* ("" when it returns), the list returned and the warnings emitted
CygwinCCompiler_runtime_library_dir_option(dir) ==
    [raised |-> "", msg |-> "", flags |-> <<>>,
     warned |-> <<runtime_library_dirs_msg>>]

Mingw32CCompiler_runtime_library_dir_option(dir) ==
    [raised |-> "DistutilsPlatformError", msg |-> runtime_library_dirs_msg,
     flags |-> <<>>, warned |-> <<>>]

\* variant: the rpath flag of the Unix compiler, returned without a warning
runtime_library_dir_option_unix(obj, dir) ==
    [raised |-> "", msg |-> "", flags |-> <<"-Wl,--enable-new-dtags,-R" , dir>>,
     warned |-> <<>>]

\* variant: the Cygwin behaviour, inherited by every class
runtime_library_dir_option_inherited(obj, dir) ==
    CygwinCCompiler_runtime_library_dir_option(dir)

\* self.runtime_library_dir_option(dir), resolved on the class of self
runtime_library_dir_option(obj, dir) ==
    IF obj.class = "mingw32"
    THEN Mingw32CCompiler_runtime_library_dir_option(dir)
    ELSE CygwinCCompiler_runtime_library_dir_option(dir)

\* UnixCCompiler.link: the option of every runtime library directory is
\* asked of self, in order; the first exception ends the link
RECURSIVE UnixCCompiler_link(_, _, _)
UnixCCompiler_link(obj, dirs, acc) ==
    IF dirs = <<>>
    THEN acc
    ELSE LET opt == runtime_library_dir_option(obj, Head(dirs))
         IN  IF opt.raised # ""
             THEN [acc EXCEPT !.raised = opt.raised, !.msg = opt.msg]
             ELSE UnixCCompiler_link(obj, Tail(dirs),
                     [acc EXCEPT !.flags = @ \o opt.flags,
                                 !.warned = @ \o opt.warned])

\* variant: no warning from link itself
CygwinCCompiler_link_silent(obj, dirs) ==
    UnixCCompiler_link(obj, dirs,
        [raised |-> "", msg |-> "", flags |-> <<>>, warned |-> <<>>,
         delegated |-> TRUE])

\* CygwinCCompiler.link: warn when runtime_library_dirs is not empty, then
\* delegate to UnixCCompiler.link
CygwinCCompiler_link(obj, dirs) ==
    UnixCCompiler_link(obj, dirs,
        [raised |-> "", msg |-> "", flags |-> <<>>,
         warned |-> IF dirs # <<>> THEN <<runtime_library_dirs_msg>> ELSE <<>>,
         delegated |-> TRUE])

(***************************************************************************)
(* Values of the compiler environment and of the method arguments.         *)
(***************************************************************************)
CcStrings ==
    { <<"g", "c", "c">>,
      <<"c", "c", "a", "c", "h", "e", " ", "g", "c", "c">>,
      <<" ", "g", "c", "c", " ", "\t", "-", "m", " ">>,
      <<>> }

DumpOutputs ==
    { <<>>,
      <<"\n">>,
      <<"p", "c", "-">> \o cygwin,
      <<"p", "c", "-">> \o cygwin \o <<"\n">>,
      cygwin \o <<" ", "\r", "\n">>,
      <<" ">> \o cygwin,
      cygwin \o <<"3", "2", "\n">>,
      cygwin \o <<" ", "x", "\n">>,
      <<"C", "y", "g", "w", "i", "n", "\n">>,
      <<"m", "i", "n", "g", "w", "3", "2", "\n">> }

CcEnvs ==
    [cc : CcStrings, cxx : { <<"g", "+", "+">> }, out : DumpOutputs, exit : {0, 1}]

NoEnv == [cc |-> <<"g", "c", "c">>, cxx |-> <<"g", "+", "+">>, out |-> <<>>, exit |-> 0]

DirNames == {"/opt/lib", "lib"}

DirLists == UNION {[1..n -> DirNames] : n \in 0..MaxDirs}

NoCall ==
    [op |-> "none", raised |-> "", msg |-> "", value |-> FALSE, argv |-> <<>>,
     events |-> <<>>, dirs |-> <<>>, flags |-> <<>>, warned |-> <<>>,
     delegated |-> FALSE]

(***************************************************************************)
(* Actions.                                                                *)
(***************************************************************************)
GetMsvcr ==
    /\ msvcr' = get_msvcr(sys_version)
    /\ UNCHANGED <<sys_version, config_h, check, cc_env, self, warnings, call>>

CheckConfigH ==
    /\ check' = check_config_h(sys_version, config_h)
    /\ UNCHANGED <<sys_version, msvcr, config_h, cc_env, self, warnings, call>>

IsCygwincc ==
    \E cc \in CcStrings :
        LET r == is_cygwincc(cc_env, cc)
        IN  /\ call' = [NoCall EXCEPT !.op = "is_cygwincc", !.raised = r.raised,
                                      !.value = r.value, !.argv = r.argv]
            /\ UNCHANGED <<sys_version, msvcr, config_h, check, cc_env, self, warnings>>

\* CygwinCCompiler(): the class defines no __init__ of its own
NewCygwinCCompiler ==
    /\ self' = base_init("cygwin", cc_env)
    /\ call' = [NoCall EXCEPT !.op = "CygwinCCompiler",
                              !.events = <<"super().__init__">>]
    /\ UNCHANGED <<sys_version, msvcr, config_h, check, cc_env, warnings>>

NewMingw32CCompiler ==
    LET r == Mingw32CCompiler_init(cc_env)
    IN  /\ self' = r.obj
        /\ call' = [NoCall EXCEPT !.op = "Mingw32CCompiler", !.raised = r.raised,
                                  !.argv = r.argv, !.events = r.events]
        /\ UNCHANGED <<sys_version, msvcr, config_h, check, cc_env, warnings>>

Link ==
    \E dirs \in DirLists :
        LET r == CygwinCCompiler_link(self, dirs)
        IN  /\ self.state = "ready"
            /\ Len(warnings) + Len(r.warned) <= MaxWarnings
            /\ warnings' = warnings \o r.warned
            /\ call' = [NoCall EXCEPT !.op = "link", !.dirs = dirs,
                                      !.raised = r.raised, !.msg = r.msg,
                                      !.flags = r.flags, !.warned = r.warned,
                                      !.delegated = r.delegated]
            /\ UNCHANGED <<sys_version, msvcr, config_h, check, cc_env, self>>

RuntimeLibraryDirOption ==
    \E dir \in DirNames :
        LET r == runtime_library_dir_option(self, dir)
        IN  /\ self.state = "ready"
            /\ Len(warnings) + Len(r.warned) <= MaxWarnings
            /\ warnings' = warnings \o r.warned
            /\ call' = [NoCall EXCEPT !.op = "runtime_library_dir_option",
                                      !.dirs = <<dir>>, !.raised = r.raised,
                                      !.msg = r.msg, !.flags = r.flags,
                                      !.warned = r.warned]
            /\ UNCHANGED <<sys_version, msvcr, config_h, check, cc_env, self>>

(***************************************************************************)
(* Specifications: one per group of functions, each started from every     *)
(* environment the functions read.                                         *)
(***************************************************************************)
Idle ==
    /\ msvcr = NoMsvcr
    /\ check = NoCheck
    /\ self = NoSelf
    /\ warnings = <<>>
    /\ call = NoCall

InitMsvcr ==
    /\ sys_version \in VersionStrings
    /\ config_h = NoFile
    /\ cc_env = NoEnv
    /\ Idle

NextMsvcr == GetMsvcr

SpecMsvcr == InitMsvcr /\ [][NextMsvcr]_vars

InitConfigH ==
    /\ sys_version \in ConfigVersions
    /\ config_h \in ConfigFiles
    /\ cc_env = NoEnv
    /\ Idle

NextConfigH == CheckConfigH

SpecConfigH == InitConfigH /\ [][NextConfigH]_vars

InitCompiler ==
    /\ sys_version = <<>>
    /\ config_h = NoFile
    /\ cc_env \in CcEnvs
    /\ Idle

NextCompiler ==
    \/ IsCygwincc
    \/ NewCygwinCCompiler
    \/ NewMingw32CCompiler
    \/ Link
    \/ RuntimeLibraryDirOption

SpecCompiler == InitCompiler /\ [][NextCompiler]_vars

(***************************************************************************)
(* Properties.                                                             *)
(***************************************************************************)
\* the pattern  MSC v\.(\d{4})  occurs in s at position j
PatternAt(s, j) ==
    /\ MatchesAt(s, Marker, j)
    /\ j + Len(Marker) + 3 <= Len(s)
    /\ \A k \in 0..3 : s[j + Len(Marker) + k] \in {Digits[d] : d \in 1..Len(Digits)}

\* the first occurrence of the pattern in s is at position i
FirstPatternAt(s, i) ==
    /\ PatternAt(s, i)
    /\ \A j \in 1..(i - 1) : ~PatternAt(s, j)

\* the number written by the four digits of the occurrence at position i
VersionAt(s, i) ==
    LET d(k) == CHOOSE n \in 0..9 : Digits[n + 1] = s[i + Len(Marker) + k]
    IN  1000 * d(0) + 100 * d(1) + 10 * d(2) + d(3)

Boundaries == <<1300, 1310, 1400, 1500, 1600, 1700, 1800, 1900, 2000>>

RangeLists ==
    << <<"msvcr70">>, <<"msvcr71">>, <<"msvcr80">>, <<"msvcr90">>, <<"msvcr100">>,
       <<"msvcr110">>, <<"msvcr120">>, <<"vcruntime140">> >>

\* C1: for every version v parsed by get_msvcr and every pair of adjacent
\* boundaries b_i < b_(i+1) of the table, b_i <= v < b_(i+1) makes get_msvcr
\* return exactly the list of b_i.
C1_HalfOpenRanges ==
    msvcr.kind \in {"List", "ValueError"} =>
        /\ \E p \in 1..Len(sys_version) :
              FirstPatternAt(sys_version, p) /\ VersionAt(sys_version, p) = msvcr.msc_ver
        /\ \A i \in 1..(Len(Boundaries) - 1) :
              (Boundaries[i] <= msvcr.msc_ver /\ msvcr.msc_ver < Boundaries[i + 1])
                  => (msvcr.kind = "List" /\ msvcr.libs = RangeLists[i])

C1_Witness ==
    /\ msvcr.kind = "List"
    /\ msvcr.msc_ver = 1309
    /\ msvcr.libs = <<"msvcr70">>

\* C2: a four-digit version found in the version string that is >= 2000 or
\* < 1300 makes get_msvcr raise ValueError; it returns neither a list nor None.
C2_UnknownVersion ==
    \A p \in 1..Len(sys_version) :
        (/\ msvcr.kind # "NotCalled"
         /\ FirstPatternAt(sys_version, p)
         /\ \/ VersionAt(sys_version, p) >= Boundaries[Len(Boundaries)]
            \/ VersionAt(sys_version, p) < Boundaries[1])
            => /\ msvcr.kind = "ValueError"
               /\ msvcr.msc_ver = VersionAt(sys_version, p)
               /\ msvcr.libs = <<>>

C2_Witness ==
    /\ msvcr.kind = "ValueError"
    /\ msvcr.msc_ver = 2000

C2_WitnessBelow ==
    /\ msvcr.kind = "ValueError"
    /\ msvcr.msc_ver = 1299

\* C3: a version string with no occurrence of 'MSC v.' followed by four
\* digits makes get_msvcr return None, raise nothing and leave the lookup
\* table unconsulted.
C3_NoMarker ==
    (/\ msvcr.kind # "NotCalled"
     /\ \A j \in 1..Len(sys_version) : ~PatternAt(sys_version, j))
        => (msvcr.kind = "None" /\ msvcr.lookups = 0)

C3_Witness ==
    /\ msvcr.kind = "None"
    /\ Contains(sys_version, Marker)
    /\ Len(sys_version) > Len(Marker) + 4

IsConfigured(obj) == \E k \in ExecKeys : obj.executables[k] # Unset

\* the environment's compiler identifies itself as a Cygwin one: it exits
\* with status 0 and its output is 'cygwin' preceded by anything and
\* followed by whitespace only
ReportsCygwin(env) ==
    /\ env.exit = 0
    /\ \E i \in 1..Len(env.out) :
          /\ MatchesAt(env.out, cygwin, i)
          /\ \A j \in (i + Len(cygwin))..Len(env.out) :
                env.out[j] \in {" ", "\n", "\r", "\t"}

InDetails(text) == \E k \in 1..Len(check.details) : check.details[k] = text

\* C5 as stated: whenever the configuration header file does not exist,
\* check_config_h returns CONFIG_H_UNCERTAIN and its details hold the OS
\* error text and the file name.
C5_MissingFileUncertain_AsStated ==
    (check.kind # "NotCalled" /\ ~config_h.exists) =>
        /\ check.kind = "return"
        /\ check.status = CONFIG_H_UNCERTAIN
        /\ InDetails("No such file or directory")
        /\ InDetails(config_h.fn)

\* C5, amended: whenever sys.version mentions neither 'GCC' nor 'Clang' and
\* the configuration header file does not exist, check_config_h returns
\* CONFIG_H_UNCERTAIN and its details hold the OS error text and the file name.
C5_MissingFileUncertain ==
    (/\ check.kind # "NotCalled"
     /\ ~config_h.exists
     /\ ~Contains(sys_version, GCC)
     /\ ~Contains(sys_version, Clang)) =>
        /\ check.kind = "return"
        /\ check.status = CONFIG_H_UNCERTAIN
        /\ InDetails("No such file or directory")
        /\ InDetails(config_h.fn)

C5_Witness ==
    /\ check.kind = "return"
    /\ ~config_h.exists
    /\ check.status = CONFIG_H_UNCERTAIN
    /\ InDetails("No such file or directory")

\* C6: CygwinCCompiler.link with a non-empty runtime_library_dirs emits the
\* fixed warning, then delegates to the base link and does not fail, and no
\* linker flag results: runtime_library_dir_option of the Cygwin class
\* returns the empty list for every directory.
C6_LinkWarnsAndProceeds ==
    /\ (call.op = "link" /\ self.class = "cygwin" /\ call.dirs # <<>>) =>
          /\ call.warned # <<>>
          /\ call.warned[1] = runtime_library_dirs_msg
          /\ call.delegated
          /\ call.raised = ""
          /\ call.flags = <<>>
          /\ SubSeq(warnings, Len(warnings) - Len(call.warned) + 1, Len(warnings))
                = call.warned
    /\ (call.op = "runtime_library_dir_option" /\ self.class = "cygwin") =>
          /\ call.raised = ""
          /\ call.flags = <<>>

C6_Witness ==
    /\ call.op = "link"
    /\ self.class = "cygwin"
    /\ Len(call.dirs) = 2
    /\ call.raised = ""
    /\ call.warned # <<>>

\* C7: Mingw32CCompiler.runtime_library_dir_option raises
\* DistutilsPlatformError with the fixed message for every directory; it
\* never returns a flag list and never degrades to a warning.
C7_MingwRefuses ==
    (call.op = "runtime_library_dir_option" /\ self.class = "mingw32") =>
        /\ call.raised = "DistutilsPlatformError"
        /\ call.msg = runtime_library_dirs_msg
        /\ call.flags = <<>>
        /\ call.warned = <<>>

C7_Witness ==
    /\ call.op = "runtime_library_dir_option"
    /\ self.class = "mingw32"
    /\ call.raised = "DistutilsPlatformError"

CanOpen(file) == file.exists /\ file.readable
ReadsFine(file) == CanOpen(file) /\ file.read_exc = ""

C8_WitnessNotOk ==
    /\ check.kind = "return"
    /\ check.status = CONFIG_H_NOTOK

\* the words of a command: no word is empty or holds whitespace, and the
\* words written one after the other are the command without its whitespace
RECURSIVE Flatten(_)
Flatten(ws) == IF ws = <<>> THEN <<>> ELSE Head(ws) \o Flatten(Tail(ws))

NotSpace(c) == c \notin {" ", "\n", "\r", "\t"}

\* C9 as stated: is_cygwincc returns true exactly when the captured output
\* ends with 'cygwin'.
C9_EndsWithCygwin_AsStated ==
    (call.op = "is_cygwincc" /\ call.raised = "") =>
        (call.value <=> EndsWith(cc_env.out, cygwin))

\* C9, amended: is_cygwincc(cc) runs the words of cc followed by the single
\* extra flag '-dumpmachine', captures the standard output, and returns true
\* exactly when that output, with leading and trailing whitespace stripped,
\* ends with 'cygwin'.
C9_EndsWithCygwin ==
    call.op = "is_cygwincc" =>
        /\ Len(call.argv) >= 1
        /\ call.argv[Len(call.argv)] = dumpmachine
        /\ \A k \in 1..(Len(call.argv) - 1) :
              /\ call.argv[k] # <<>>
              /\ call.argv[k] = SelectSeq(call.argv[k], NotSpace)
        /\ \E cc \in CcStrings :
              Flatten(SubSeq(call.argv, 1, Len(call.argv) - 1)) = SelectSeq(cc, NotSpace)
        /\ call.raised = "" =>
              (call.value <=>
                  \E i \in 1..Len(cc_env.out) :
                      /\ MatchesAt(cc_env.out, cygwin, i)
                      /\ \A j \in (i + Len(cygwin))..Len(cc_env.out) :
                            ~NotSpace(cc_env.out[j]))

C9_Witness ==
    /\ call.op = "is_cygwincc"
    /\ call.raised = ""
    /\ call.value
    /\ ~EndsWith(cc_env.out, cygwin)
    /\ Len(call.argv) = 3

\* C10: on every path of check_config_h that opens the file, the file is
\* closed before the function is left, whichever the outcome, including a
\* read that fails with OSError after the open; no call leaves the file
\* open, and the paths that return because sys.version mentions 'GCC' or
\* 'Clang' never open it.
C10_FileClosed ==
    check.kind # "NotCalled" =>
        /\ ~check.is_open
        /\ (Contains(sys_version, GCC) \/ Contains(sys_version, Clang))
              => check.ops = <<>>
        /\ (/\ ~Contains(sys_version, GCC)
            /\ ~Contains(sys_version, Clang)
            /\ CanOpen(config_h))
              => (/\ check.ops # <<>>
                  /\ check.ops[1] = "open"
                  /\ check.ops[Len(check.ops)] = "close")

C10_Witness ==
    /\ check.kind = "return"
    /\ check.status = CONFIG_H_UNCERTAIN
    /\ CanOpen(config_h)
    /\ config_h.read_exc = "OSError"
    /\ check.ops = <<"open", "read", "close">>

====
